---- MODULE Spec2Model ----
(***************************************************************************)
(* The two one-shot loaders of the repository, base-dict/upload.py and     *)
(* nrc-emolex-dict/upload.py, as one state machine.  `variant` selects the *)
(* script; one run of main() is one behaviour.  The PostgreSQL session of  *)
(* step 3 is modelled with its transaction: `tx` is what the connection    *)
(* sees, `db` what is committed, `txFailed` the aborted-transaction state  *)
(* every statement error puts a non-autocommit connection in.              *)
(***************************************************************************)
EXTENDS Integers, Sequences, FiniteSets, TLC

VARIABLES
    variant,        \* "base" (base-dict/upload.py) or "emolex" (nrc-emolex-dict/upload.py)
    pc,             \* position of main()
    dbExists,       \* the target database exists on the server
    db,             \* committed contents of the five tables
    tx,             \* contents as seen by the open connection (uncommitted included)
    txFailed,       \* the connection's transaction is in the aborted state
    seq,            \* next value of each table's SERIAL sequence
    raw,            \* the rows of the input file as read
    df,             \* the data frame after step 2 (fillna / normalisation)
    party_map,      \* party name -> id
    date_map,       \* calendar day -> id
    politician_map, \* <<name, party id>> -> id
    calendar,       \* days generate_calendar has still to yield
    pairs,          \* (name, party) pairs the politician loop has still to visit
    idx,            \* number of source rows the speech loop has finished
    inserted,       \* counter `inserted`
    skipped,        \* counter `skipped`
    raised          \* [phases, rows]: the phases, and the source rows, in which an error was raised

vars == <<variant, pc, dbExists, db, tx, txFailed, seq, raw, df, party_map,
          date_map, politician_map, calendar, pairs, idx, inserted, skipped, raised>>

----------------------------------------------------------------------------
(* Bounds of the model and scaled program constants *)

\* Largest number of rows in an input file.
MaxRows == 2

\* Calendar days are numbered 1..MaxDay.
MaxDay == 3

\* The fixed calendar range date(2000, 1, 1) .. date(2025, 12, 31), scaled to
\* the day numbers of the model: day 1 lies before the range.
CalStart == 2
CalEnd == 3

EMOTION_COLS == 1..5

\* Missing values as pandas shows them: NaN in text columns, NaT in the Date
\* column, NaN in an emotion column.
NA == "NA"
NaT == 0
NaN == <<0, 0>>

\* Python's None, the result of dict.get on a missing key; no id equals it.
None == 0

Names == {"Alice"}
PartyNames == {"PartyA", "PartyB"}
Days == 1..MaxDay

\* An emotion value is a rational <<numerator, denominator>>; <<0, 0>> is NaN.
Num(n) == <<n, 1>>

\* Emotion vectors of the input: no signal, the counts of the documented
\* example, and a row with a missing anger value.
EmoVecs_zero == <<Num(0), Num(0), Num(0), Num(0), Num(0)>>
EmoVecs_counts == <<Num(1), Num(0), Num(0), Num(2), Num(0)>>
EmoVecs_missing == <<NaN, Num(0), Num(0), Num(1), Num(0)>>

\* pd.isna on a text cell, and on a Date cell.
isna(v) == v = NA
isnat(d) == d = NaT

\* any(pd.isna(row[col]) for col in EMOTION_COLS)
HasNaN(e) == \E c \in EMOTION_COLS : e[c] = NaN

\* Rows with every field present: any party, any day, with or without
\* emotion signal.
CompleteRows ==
    [name : Names, party : PartyNames, date : Days, emo : {EmoVecs_zero, EmoVecs_counts}]

\* Rows with one field missing: the documented example row with its name,
\* its party, its date or an emotion value removed.
ExampleRow ==
    [name |-> "Alice", party |-> "PartyA", date |-> CalStart, emo |-> EmoVecs_counts]

IncompleteRows ==
    { [ExampleRow EXCEPT !.name = NA], [ExampleRow EXCEPT !.party = NA],
      [ExampleRow EXCEPT !.date = NaT], [ExampleRow EXCEPT !.emo = EmoVecs_missing] }

\* The rows an input file is drawn from.
Rows == CompleteRows \cup IncompleteRows

DataFrames == UNION { [1..n -> Rows] : n \in 0..MaxRows }

----------------------------------------------------------------------------
(* Arithmetic on emotion values *)

RECURSIVE Gcd(_, _)
Gcd(a, b) == IF b = 0 THEN a ELSE Gcd(b, a % b)

\* a / b as pandas computes it on floats: 0/0 is NaN, x/0 is inf (<<1, 0>>).
Div(a, b) ==
    IF b = 0 THEN (IF a = 0 THEN NaN ELSE <<1, 0>>)
    ELSE LET g == Gcd(a, b) IN <<a \div g, b \div g>>

\* x / total for a stored value x = <<n, d>> and an integer total; NaN stays NaN.
DivBy(x, total) == IF x = NaN THEN NaN ELSE Div(x[1], x[2] * total)

\* DataFrame.sum(axis=1): the row total, NaN cells skipped (skipna=True).
\* Input counts are integers, so denominators are 1.
RECURSIVE SumFrom(_, _)
SumFrom(e, c) ==
    IF c > 5 THEN 0
    ELSE (IF e[c] = NaN THEN 0 ELSE e[c][1]) + SumFrom(e, c + 1)

emotion_sum(e) == SumFrom(e, 1)

----------------------------------------------------------------------------
(* Step 2: processing of the loaded frame *)

Zeros == [c \in EMOTION_COLS |-> Num(0)]

\* base: df[EMOTION_COLS].fillna(0.0)
Fillna(e) == [c \in EMOTION_COLS |-> IF e[c] = NaN THEN Num(0) ELSE e[c]]

\* Normalize without the zero-sum mask: every row is divided by its total.
NormalizeUnmasked(e) == [c \in EMOTION_COLS |-> DivBy(e[c], emotion_sum(e))]

\* emolex: rows whose total is nonzero are divided by it, the others are
\* set to 0.0 (zero_sum_mask / nonzero_mask).
Normalize(e) ==
    LET total == emotion_sum(e)
    IN  IF total = 0 THEN Zeros
        ELSE [c \in EMOTION_COLS |-> DivBy(e[c], total)]

Process(v, data) ==
    [i \in DOMAIN data |->
        [data[i] EXCEPT !.emo = IF v = "base" THEN Fillna(@) ELSE Normalize(@)]]

----------------------------------------------------------------------------
(* The database *)

Tables == {"party", "date_dim", "nrc_encoding", "politician", "speech"}

\* Sequences that kept counting where an earlier run left them (tables
\* emptied without being dropped).
StaleSeq == [t \in {"party", "date_dim", "nrc_encoding", "politician", "speech"} |-> 2]

\* create_tables: the five tables, dropped and created empty, sequences at 1.
EmptyTables == [t \in Tables |-> {}]
FreshSeq == [t \in Tables |-> 1]

\* What an earlier run may have left in the database.
OldTables ==
    [party |-> {[id |-> 1, name |-> "PartyA"]},
     date_dim |-> {[id |-> 1, date |-> CalStart]},
     nrc_encoding |-> {[id |-> 1, vals |-> Zeros, row |-> 1]},
     politician |-> {[id |-> 1, name |-> "Alice", party |-> 1]},
     speech |-> {[id |-> 1, speaker |-> 1, speech_date |-> 1, nrc_encoding |-> 1,
                  row |-> 1]}]
OldSeq == [t \in Tables |-> 2]

Ids(rows) == {r.id : r \in rows}

\* dict.get(key): None when the key is missing.
Get(m, k) == IF k \in DOMAIN m THEN m[k] ELSE None

\* m[k] = v
Put(m, k, v) == [x \in DOMAIN m \cup {k} |-> IF x = k THEN v ELSE m[x]]

\* INSERT INTO party (name) VALUES (n) ON CONFLICT (name) DO NOTHING, on the
\* pair t = [rows, next] of the table and its sequence.  nextval is taken
\* before the conflict is seen.
InsertParty(t, n) ==
    IF \E p \in t.rows : p.name = n
    THEN [rows |-> t.rows, next |-> t.next + 1]
    ELSE [rows |-> t.rows \cup {[id |-> t.next, name |-> n]}, next |-> t.next + 1]

\* cur.executemany over the list of names.
RECURSIVE ExecMany(_, _)
ExecMany(t, names) ==
    IF names = <<>> THEN t ELSE ExecMany(InsertParty(t, Head(names)), Tail(names))

\* InsertDate without its ON CONFLICT clause taking effect: the day is
\* inserted again.
InsertDateNoConflict(t, d) ==
    [rows |-> t.rows \cup {[id |-> t.next, date |-> d]}, next |-> t.next + 1,
     id |-> t.next]

\* INSERT INTO date_dim ... ON CONFLICT (date) DO NOTHING RETURNING id
InsertDate(t, d) ==
    IF \E r \in t.rows : r.date = d
    THEN [rows |-> t.rows, next |-> t.next + 1, id |-> None]
    ELSE [rows |-> t.rows \cup {[id |-> t.next, date |-> d]}, next |-> t.next + 1,
          id |-> t.next]

\* SELECT id FROM date_dim WHERE date = d
SelectDate(rows, d) == (CHOOSE r \in rows : r.date = d).id

\* InsertPolitician that leaves the party column out of the INSERT.
InsertPoliticianNullParty(t, n, p) ==
    [rows |-> t.rows \cup {[id |-> t.next, name |-> n, party |-> None]},
     next |-> t.next + 1, id |-> t.next]

\* INSERT INTO politician (name, party) ... ON CONFLICT DO NOTHING RETURNING id
InsertPolitician(t, n, p) ==
    IF \E r \in t.rows : r.name = n /\ r.party = p
    THEN [rows |-> t.rows, next |-> t.next + 1, id |-> None]
    ELSE [rows |-> t.rows \cup {[id |-> t.next, name |-> n, party |-> p]},
          next |-> t.next + 1, id |-> t.next]

\* SELECT id FROM politician WHERE name = n AND party = p
SelectPolitician(rows, n, p) == (CHOOSE r \in rows : r.name = n /\ r.party = p).id

\* The orders in which a Python set of names can be iterated.
Orderings(S) ==
    { s \in [1..Cardinality(S) -> S] :
        \A i, j \in DOMAIN s : i # j => s[i] # s[j] }

\* set(df['Speaker_party_name'].dropna().unique())
party_names(frame) ==
    { frame[i].party : i \in { j \in DOMAIN frame : ~isna(frame[j].party) } }

\* generate_calendar(start_date, end_date); a comparison with NaT is False.
generate_calendar(start_date, end_date) ==
    IF isnat(start_date) \/ isnat(end_date) THEN <<>>
    ELSE [k \in 1..(end_date - start_date + 1) |-> start_date + k - 1]

\* The dates of the frame that are not NaT.
DatesOf(frame) ==
    { frame[i].date : i \in { j \in DOMAIN frame : ~isnat(frame[j].date) } }

SetMin(S) == IF S = {} THEN NaT ELSE CHOOSE x \in S : \A y \in S : x <= y
SetMax(S) == IF S = {} THEN NaT ELSE CHOOSE x \in S : \A y \in S : x >= y

\* The range the calendar loop walks: min and max of the Date column (the
\* fixed range when the frame has no rows) in base, the fixed range in emolex.
CalendarOf(v, frame) ==
    IF v = "base"
    THEN IF Len(frame) = 0 THEN generate_calendar(CalStart, CalEnd)
         ELSE generate_calendar(SetMin(DatesOf(frame)), SetMax(DatesOf(frame)))
    ELSE generate_calendar(CalStart, CalEnd)

\* df[['Speaker_name', 'Speaker_party_name']].drop_duplicates(), in order of
\* first occurrence.
RECURSIVE DropDuplicates(_, _, _)
DropDuplicates(frame, i, seen) ==
    IF i > Len(frame) THEN <<>>
    ELSE LET p == <<frame[i].name, frame[i].party>>
         IN  IF p \in seen THEN DropDuplicates(frame, i + 1, seen)
             ELSE <<p>> \o DropDuplicates(frame, i + 1, seen \cup {p})

----------------------------------------------------------------------------
(* Transactions of the step-3 connection *)

\* A commit that never reaches the server: the pending rows are lost.
CommitLost == db

\* conn.commit(): COMMIT makes the session's view durable; on a transaction
\* in the aborted state the server answers ROLLBACK and the view falls
\* back to the committed contents.
Committed == IF txFailed THEN db ELSE tx

NoError == [phases |-> {}, rows |-> {}]

\* An exception leaves main(): the connection block rolls back and closes.
Fatal(phase) ==
    /\ pc' = "aborted"
    /\ tx' = db
    /\ txFailed' = FALSE
    /\ raised' = [raised EXCEPT !.phases = @ \cup {phase}]
    /\ UNCHANGED <<variant, dbExists, db, seq, raw, df, party_map, date_map,
                   politician_map, calendar, pairs, idx, inserted, skipped>>

----------------------------------------------------------------------------
(* Step 1: database and schema *)

Init ==
    /\ variant \in {"base", "emolex"}
    /\ pc = "create_db"
    /\ dbExists \in BOOLEAN
    /\ db \in (IF dbExists THEN {EmptyTables, OldTables} ELSE {EmptyTables})
    /\ tx = db
    /\ txFailed = FALSE
    /\ seq = (IF db = OldTables THEN OldSeq ELSE FreshSeq)
    /\ raw = <<>>
    /\ df = <<>>
    /\ party_map = <<>>
    /\ date_map = <<>>
    /\ politician_map = <<>>
    /\ calendar = <<>>
    /\ pairs = <<>>
    /\ idx = 0
    /\ inserted = 0
    /\ skipped = 0
    /\ raised = NoError

\* create_database_if_not_exists: CREATE DATABASE; DuplicateDatabase is
\* informational, any other error is re-raised.
CreateDatabase ==
    /\ pc = "create_db"
    /\ \E ok \in BOOLEAN :
        IF ok
        THEN /\ dbExists' = TRUE
             /\ pc' = "create_tables"
             /\ UNCHANGED <<variant, db, tx, txFailed, seq, raw, df, party_map,
                            date_map, politician_map, calendar, pairs, idx,
                            inserted, skipped, raised>>
        ELSE Fatal("schema")

\* create_tables: DROP TABLE IF EXISTS ... CASCADE for the five tables, CREATE
\* TABLE for each, the foreign keys, then commit.
CreateTables ==
    /\ pc = "create_tables"
    /\ \E ok \in BOOLEAN :
        IF ok
        THEN /\ db' = EmptyTables
             /\ tx' = EmptyTables
             /\ seq' = FreshSeq
             /\ pc' = "load"
             /\ UNCHANGED <<variant, dbExists, txFailed, raw, df, party_map,
                            date_map, politician_map, calendar, pairs, idx,
                            inserted, skipped, raised>>
        ELSE Fatal("schema")

----------------------------------------------------------------------------
(* Step 2: load and process the data *)

\* pd.read_csv / load_rdata, the Date conversion and fillna / normalisation.
\* A file that cannot be loaded ends the run by `return`.
LoadData ==
    /\ pc = "load"
    /\ \/ \E data \in DataFrames :
            /\ raw' = data
            /\ df' = Process(variant, data)
            /\ pc' = "party"
            /\ raised' = raised
       \/ /\ pc' = "returned"
          /\ raised' = [raised EXCEPT !.phases = @ \cup {"load"}]
          /\ UNCHANGED <<raw, df>>
    /\ UNCHANGED <<variant, dbExists, db, tx, txFailed, seq, party_map, date_map,
                   politician_map, calendar, pairs, idx, inserted, skipped>>

----------------------------------------------------------------------------
(* Step 3: dimension phases *)

\* The party phase: executemany of the upserts in the set's iteration order,
\* commit, then SELECT id, name FROM party into party_map.
PartyPhase ==
    /\ pc = "party"
    /\ \/ \E order \in Orderings(party_names(df)) :
            LET t == ExecMany([rows |-> tx.party, next |-> seq.party], order)
                view == [tx EXCEPT !.party = t.rows]
            IN  /\ tx' = view
                /\ db' = view
                /\ seq' = [seq EXCEPT !.party = t.next]
                /\ party_map' = [n \in {p.name : p \in t.rows} |->
                                    (CHOOSE p \in t.rows : p.name = n).id]
                /\ pc' = "calendar"
                /\ UNCHANGED <<variant, dbExists, txFailed, raw, df, date_map,
                               politician_map, calendar, pairs, idx, inserted,
                               skipped, raised>>
       \/ Fatal("party")

\* Start of the calendar phase: date_map = {} and the range to walk.  In
\* base, min() and max() run over an object column; when it holds NaT next
\* to dates the reduction either skips NaT or raises TypeError.
CalendarStart ==
    /\ pc = "calendar"
    /\ \/ /\ date_map' = <<>>
          /\ calendar' = CalendarOf(variant, df)
          /\ pc' = "date"
          /\ UNCHANGED <<variant, dbExists, db, tx, txFailed, seq, raw, df,
                         party_map, politician_map, pairs, idx, inserted, skipped,
                         raised>>
       \/ /\ variant = "base"
          /\ \E i \in DOMAIN df : isnat(df[i].date)
          /\ Fatal("date")

\* One iteration of the calendar loop: the upsert of day d, and the SELECT
\* when the day was already there.
DateStep ==
    /\ pc = "date"
    /\ calendar # <<>>
    /\ \/ LET d == Head(calendar)
              t == InsertDate([rows |-> tx.date_dim, next |-> seq.date_dim], d)
          IN  /\ tx' = [tx EXCEPT !.date_dim = t.rows]
              /\ seq' = [seq EXCEPT !.date_dim = t.next]
              /\ date_map' = Put(date_map, d,
                                 IF t.id # None THEN t.id ELSE SelectDate(t.rows, d))
              /\ calendar' = Tail(calendar)
              /\ UNCHANGED <<variant, pc, dbExists, db, txFailed, raw, df, party_map,
                             politician_map, pairs, idx, inserted, skipped, raised>>
       \/ Fatal("date")

\* End of the calendar loop: commit; then politician_map = {} and the
\* de-duplicated (name, party) pairs.
DateCommit ==
    /\ pc = "date"
    /\ calendar = <<>>
    /\ db' = Committed
    /\ tx' = Committed
    /\ txFailed' = FALSE
    /\ politician_map' = <<>>
    /\ pairs' = DropDuplicates(df, 1, {})
    /\ pc' = "politician"
    /\ UNCHANGED <<variant, dbExists, seq, raw, df, party_map, date_map, calendar,
                   idx, inserted, skipped, raised>>

\* Whether the variant wraps the politician insert in try/except.
PoliticianErrorCaught(v) == v = "base"

\* One iteration of the politician loop.
PoliticianStep ==
    /\ pc = "politician"
    /\ pairs # <<>>
    /\ LET name == Head(pairs)[1]
           party_name == Head(pairs)[2]
           party_id == Get(party_map, party_name)
           key == <<name, party_id>>
           t == InsertPolitician([rows |-> tx.politician, next |-> seq.politician],
                                 name, party_id)
           continue ==
               /\ pairs' = Tail(pairs)
               /\ UNCHANGED <<variant, pc, dbExists, db, tx, txFailed, seq, raw, df,
                              party_map, date_map, politician_map, calendar, idx,
                              inserted, skipped, raised>>
       IN  IF isna(name) \/ isna(party_name) THEN continue
           ELSE IF party_id = None THEN continue
           ELSE IF key \in DOMAIN politician_map THEN continue
           ELSE \E ok \in BOOLEAN :
                IF ok /\ ~txFailed /\ party_id \in Ids(tx.party)
                THEN /\ tx' = [tx EXCEPT !.politician = t.rows]
                     /\ seq' = [seq EXCEPT !.politician = t.next]
                     /\ politician_map' =
                            Put(politician_map, key,
                                IF t.id # None THEN t.id
                                ELSE SelectPolitician(t.rows, name, party_id))
                     /\ pairs' = Tail(pairs)
                     /\ UNCHANGED <<variant, pc, dbExists, db, txFailed, raw, df,
                                    party_map, date_map, calendar, idx, inserted,
                                    skipped, raised>>
                ELSE IF PoliticianErrorCaught(variant)
                     THEN /\ txFailed' = TRUE
                          /\ raised' = [raised EXCEPT !.phases = @ \cup {"politician"}]
                          /\ pairs' = Tail(pairs)
                          /\ UNCHANGED <<variant, pc, dbExists, db, tx, seq, raw, df,
                                         party_map, date_map, politician_map,
                                         calendar, idx, inserted, skipped>>
                     ELSE Fatal("politician")

\* End of the politician loop: commit; then inserted, skipped = 0, 0.
PoliticianCommit ==
    /\ pc = "politician"
    /\ pairs = <<>>
    /\ db' = Committed
    /\ tx' = Committed
    /\ txFailed' = FALSE
    /\ idx' = 0
    /\ inserted' = 0
    /\ skipped' = 0
    /\ pc' = "speech"
    /\ UNCHANGED <<variant, dbExists, seq, raw, df, party_map, date_map,
                   politician_map, calendar, pairs, raised>>

----------------------------------------------------------------------------
(* Step 3: the speech loop *)

\* INSERT INTO nrc_encoding (...) VALUES (...) RETURNING id.  `row` records
\* the source row the values came from.
InsertEncoding(t, vals, i) ==
    [rows |-> t.rows \cup {[id |-> t.next, vals |-> vals, row |-> i]},
     next |-> t.next + 1, id |-> t.next]

\* INSERT INTO speech (speaker, speech_date, text, nrc_encoding).  `row`
\* stands for the Text of source row i.
InsertSpeech(t, speaker_id, date_id, nrc_id, i) ==
    [rows |-> t.rows \cup {[id |-> t.next, speaker |-> speaker_id,
                            speech_date |-> date_id, nrc_encoding |-> nrc_id,
                            row |-> i]},
     next |-> t.next + 1]

\* NotAll with the check dropped: no row is skipped for a missing id.
NotAllNever(ids) == FALSE

\* not all([...]): some id of the list is None.
NotAll(ids) == \E k \in DOMAIN ids : ids[k] = None

\* Whether the variant resolves and checks the row before it inserts the
\* encoding (base), or inserts the encoding first (emolex).
ChecksBeforeInsert(v) == v = "base"

\* One iteration of the speech loop, the except clause included.  okEnc and
\* okSp say whether the server accepts the two inserts; a statement on an
\* aborted transaction, or one that breaks a foreign key, always raises (a
\* None parameter is NULL, which a foreign key lets through).
SpeechStep ==
    /\ pc = "speech"
    /\ idx < Len(df)
    /\ LET i == idx + 1
           row == df[i]
           date_id == Get(date_map, row.date)
           party_id == Get(party_map, row.party)
           speaker_id == Get(politician_map, <<row.name, party_id>>)
           enc == InsertEncoding([rows |-> tx.nrc_encoding, next |-> seq.nrc_encoding],
                                 row.emo, i)
           sp == InsertSpeech([rows |-> tx.speech, next |-> seq.speech],
                              speaker_id, date_id, enc.id, i)
           fk == /\ speaker_id = None \/ speaker_id \in Ids(tx.politician)
                 /\ date_id = None \/ date_id \in Ids(tx.date_dim)
           WithEncoding(b) ==
               /\ tx' = IF b THEN [tx EXCEPT !.nrc_encoding = enc.rows] ELSE tx
               /\ seq' = IF b THEN [seq EXCEPT !.nrc_encoding = enc.next] ELSE seq
           Skip(b) ==
               /\ WithEncoding(b)
               /\ skipped' = skipped + 1
               /\ UNCHANGED <<inserted, txFailed, raised>>
           Except(b) ==
               /\ WithEncoding(b)
               /\ skipped' = skipped + 1
               /\ txFailed' = TRUE
               /\ raised' = IF txFailed THEN raised
                            ELSE [raised EXCEPT !.phases = @ \cup {"speech"},
                                                !.rows = @ \cup {i}]
               /\ UNCHANGED inserted
           Insert ==
               /\ tx' = [tx EXCEPT !.nrc_encoding = enc.rows, !.speech = sp.rows]
               /\ seq' = [seq EXCEPT !.nrc_encoding = enc.next, !.speech = sp.next]
               /\ inserted' = inserted + 1
               /\ UNCHANGED <<skipped, txFailed, raised>>
       IN  /\ \E okEnc, okSp \in BOOLEAN :
                IF ChecksBeforeInsert(variant)
                THEN IF isna(row.name) \/ isna(row.party) \/ isnat(row.date)
                     THEN Skip(FALSE)
                     ELSE IF NotAll(<<date_id, speaker_id>>) \/ HasNaN(row.emo)
                     THEN Skip(FALSE)
                     ELSE IF ~(okEnc /\ ~txFailed) THEN Except(FALSE)
                     ELSE IF ~(okSp /\ fk) THEN Except(TRUE)
                     ELSE Insert
                ELSE IF ~(okEnc /\ ~txFailed) THEN Except(FALSE)
                     ELSE IF NotAll(<<enc.id, date_id, speaker_id>>)
                     THEN Skip(TRUE)
                     ELSE IF ~(okSp /\ fk) THEN Except(TRUE)
                     ELSE Insert
           /\ idx' = i
    /\ UNCHANGED <<variant, pc, dbExists, db, raw, df, party_map, date_map,
                   politician_map, calendar, pairs>>

\* End of the speech loop: the final commit, and the end of main().
SpeechCommit ==
    /\ pc = "speech"
    /\ idx = Len(df)
    /\ db' = Committed
    /\ tx' = Committed
    /\ txFailed' = FALSE
    /\ pc' = "done"
    /\ UNCHANGED <<variant, dbExists, seq, raw, df, party_map, date_map,
                   politician_map, calendar, pairs, idx, inserted, skipped, raised>>

----------------------------------------------------------------------------
(* One run of main() *)

Next ==
    \/ CreateDatabase
    \/ CreateTables
    \/ LoadData
    \/ PartyPhase
    \/ CalendarStart
    \/ DateStep
    \/ DateCommit
    \/ PoliticianStep
    \/ PoliticianCommit
    \/ SpeechStep
    \/ SpeechCommit

Spec == Init /\ [][Next]_vars

----------------------------------------------------------------------------
(* Vocabulary of the properties *)

\* Source row i has its speaker, party and date.
HasKeys(i) == ~isna(raw[i].name) /\ ~isna(raw[i].party) /\ ~isnat(raw[i].date)

\* Source row i is valid: its keys and its five emotion values are present.
ValidRow(i) == HasKeys(i) /\ ~HasNaN(raw[i].emo)

\* The speech and encoding rows of table contents T that came from source row i.
SpeechOf(T, i) == { s \in T.speech : s.row = i }
EncodingOf(T, i) == { e \in T.nrc_encoding : e.row = i }

\* Speech row s of T points to the politician, the day and the encoding of
\* source row i.
Resolves(T, s, i) ==
    /\ \E p \in T.politician :
          /\ p.id = s.speaker
          /\ p.name = raw[i].name
          /\ \E q \in T.party : q.id = p.party /\ q.name = raw[i].party
    /\ \E d \in T.date_dim : d.id = s.speech_date /\ d.date = raw[i].date
    /\ \E e \in T.nrc_encoding :
          e.id = s.nrc_encoding /\ e.row = i /\ e.vals = df[i].emo

\* The speech loop has just finished a source row.
RowDone == pc = "speech" /\ idx' = idx + 1

----------------------------------------------------------------------------
(* C1 *)

\* C1: after a complete run in which nothing raised, every valid source row
\* has exactly one speech row and exactly one nrc_encoding row, and the
\* speech row points to the politician with the row's (name, party), the
\* date_dim row with the row's Date and the encoding with the row's values.
C1_ValidRowsLoaded ==
    (pc = "done" /\ raised = NoError) =>
        \A i \in DOMAIN raw :
            ValidRow(i) =>
                /\ Cardinality(SpeechOf(db, i)) = 1
                /\ Cardinality(EncodingOf(db, i)) = 1
                /\ \A s \in SpeechOf(db, i) : Resolves(db, s, i)

----------------------------------------------------------------------------
(* C2 *)

\* C2: a row skipped because a lookup fails creates neither an encoding row
\* nor a speech row, so after a run in which nothing raised there are as
\* many nrc_encoding rows as speech rows and every encoding row is
\* referenced by exactly one speech.
C2_EncodingOnlyWithSpeech ==
    (pc = "done" /\ raised = NoError) =>
        /\ Cardinality(db.nrc_encoding) = Cardinality(db.speech)
        /\ \A e \in db.nrc_encoding :
              Cardinality({ s \in db.speech : s.nrc_encoding = e.id }) = 1

----------------------------------------------------------------------------
(* C3 *)

\* C3: processing a source row whose Speaker_name, Speaker_party_name or
\* Date is missing adds one to skipped, leaves inserted alone and adds no
\* speech row; no speech row ever belongs to such a source row.
C3_MissingKeySkipped ==
    [][ /\ (RowDone /\ ~HasKeys(idx')) =>
              /\ skipped' = skipped + 1
              /\ inserted' = inserted
              /\ tx'.speech = tx.speech
        /\ pc' \in {"speech", "done"} =>
              \A s \in tx'.speech \cup db'.speech : HasKeys(s.row) ]_vars

\* C3 witness: both loops' skip of a keyless row has run, next to an
\* inserted one.
C3_Witness ==
    /\ pc = "done"
    /\ \E i \in DOMAIN raw : ~HasKeys(i)
    /\ skipped = 1
    /\ inserted = 1
    /\ Cardinality(db.speech) = 1

----------------------------------------------------------------------------
(* C4 *)

\* C4: an error raised while processing a source row is counted as a skip
\* and does not abort the batch: the final commit is reached, and every
\* later valid row whose lookups succeed and whose own inserts the server
\* accepted has its speech and encoding rows afterwards.
C4_FailureDoesNotAbortBatch ==
    (pc = "done" /\ raised.phases \subseteq {"speech"}) =>
        \A i \in DOMAIN raw :
            ( /\ ValidRow(i)
              /\ \E j \in raised.rows : j < i
              /\ raw[i].date \in DOMAIN date_map
              /\ raw[i].party \in DOMAIN party_map
              /\ <<raw[i].name, party_map[raw[i].party]>> \in DOMAIN politician_map )
            => /\ SpeechOf(db, i) # {}
               /\ EncodingOf(db, i) # {}

----------------------------------------------------------------------------
(* C5 *)

\* a + b on rationals.
AddFrac(a, b) == Div(a[1] * b[2] + b[1] * a[2], a[2] * b[2])

\* The sum of the values v[c..5].
RECURSIVE FracSum(_, _)
FracSum(v, c) == IF c > 5 THEN Num(0) ELSE AddFrac(v[c], FracSum(v, c + 1))

\* C5: in the proportional variant, an encoding row that came from five
\* present counts with a nonzero total stores count / total in each column,
\* and the five stored values sum to 1; one that came from a zero total
\* stores five zeros (no 0/0).
C5_Proportions ==
    (variant = "emolex" /\ pc \in {"speech", "done"}) =>
        \A e \in tx.nrc_encoding \cup db.nrc_encoding :
            LET counts == raw[e.row].emo
                total == emotion_sum(counts)
            IN  ~HasNaN(counts) =>
                    IF total # 0
                    THEN /\ \A c \in EMOTION_COLS :
                              /\ e.vals[c][2] # 0
                              /\ e.vals[c][1] * total = counts[c][1] * e.vals[c][2]
                         /\ FracSum(e.vals, 1) = Num(1)
                    ELSE \A c \in EMOTION_COLS : e.vals[c] = Num(0)

\* C5 witness: the documented example, (1,0,0,2,0) stored as (1/3,0,0,2/3,0)
\* next to a row without emotion signal stored as zeros.
C5_Witness ==
    /\ variant = "emolex"
    /\ pc = "done"
    /\ \E e1, e2 \in db.nrc_encoding :
          /\ raw[e1.row].emo = EmoVecs_counts
          /\ e1.vals = <<<<1, 3>>, Num(0), Num(0), <<2, 3>>, Num(0)>>
          /\ raw[e2.row].emo = EmoVecs_zero
          /\ e2.vals = Zeros

----------------------------------------------------------------------------
(* C6 *)

\* C6: after the calendar phase of a run in which nothing raised, date_dim
\* holds exactly one row per day of [min(Date), max(Date)] of the source
\* data and no other day, and date_map maps each of those days to its row.
C6_CalendarIsDataRange ==
    (pc \in {"politician", "speech", "done"} /\ raised = NoError
        /\ DatesOf(raw) # {}) =>
        LET range == SetMin(DatesOf(raw))..SetMax(DatesOf(raw))
        IN  /\ { r.date : r \in db.date_dim } = range
            /\ Cardinality(db.date_dim) = Cardinality(range)
            /\ DOMAIN date_map = range
            /\ \A d \in range :
                  \E r \in db.date_dim : r.date = d /\ r.id = date_map[d]

----------------------------------------------------------------------------
(* C8 *)

\* C8: in every state, committed or not, every politician row has a party
\* that is the id of a party row, no two politician rows share (name,
\* party), and politician_map holds no key whose party id party_map lacks:
\* a pair without a resolvable party was skipped.
C8_PoliticianHasParty ==
    /\ \A T \in {db, tx} :
          /\ \A p \in T.politician :
                p.party # None /\ \E q \in T.party : q.id = p.party
          /\ \A p1, p2 \in T.politician :
                (p1.name = p2.name /\ p1.party = p2.party) => p1 = p2
    /\ \A k \in DOMAIN politician_map :
          \E n \in DOMAIN party_map : party_map[n] = k[2]

\* C8 witness: the politician loop has inserted a politician and skipped a
\* pair whose party is missing.
C8_Witness ==
    /\ pc = "speech"
    /\ Cardinality(db.politician) = 1
    /\ \E i \in DOMAIN raw : ~isna(raw[i].name) /\ isna(raw[i].party)

----------------------------------------------------------------------------
(* C9 *)

\* C9: a source row with a missing emotion value at the time the speech
\* loop processes it gets no nrc_encoding row and no speech row, and is
\* counted as skipped.
C9_MissingEmotionSkipped ==
    pc \in {"speech", "done"} =>
        /\ \A i \in 1..idx :
              HasNaN(df[i].emo) => EncodingOf(tx, i) = {} /\ SpeechOf(tx, i) = {}
        /\ skipped >= Cardinality({ i \in 1..idx : HasNaN(df[i].emo) })

----------------------------------------------------------------------------
(* C10 *)

\* C10: once an error was raised during schema creation or a dimension
\* phase, the run is over: the speech loop is never entered.
C10_SetupErrorsAreFatal ==
    (raised.phases \cap {"schema", "party", "date", "politician"} # {}) =>
        pc \notin {"speech", "done"}

----------------------------------------------------------------------------
(* C7: the dimension phases against tables that are already populated *)

\* The calendar loop and the politician loop of a run, as functions of the
\* table they fill.
RECURSIVE InsertDates(_, _)
InsertDates(t, cal) ==
    IF cal = <<>> THEN t
    ELSE LET u == InsertDate(t, Head(cal))
         IN  InsertDates([rows |-> u.rows, next |-> u.next], Tail(cal))

RECURSIVE InsertPoliticians(_, _, _)
InsertPoliticians(t, prs, pmap) ==
    IF prs = <<>> THEN t
    ELSE LET name == Head(prs)[1]
             party_id == Get(pmap, Head(prs)[2])
             u == InsertPolitician(t, name, party_id)
         IN  IF isna(name) \/ isna(Head(prs)[2]) \/ party_id = None
             THEN InsertPoliticians(t, Tail(prs), pmap)
             ELSE InsertPoliticians([rows |-> u.rows, next |-> u.next], Tail(prs), pmap)

\* Tables and sequences after the three dimension phases of a run of
\* variant v over `frame`, the parties inserted in `order`.
Populated(v, frame, order) ==
    LET empty == [rows |-> {}, next |-> 1]
        p == ExecMany(empty, order)
        pmap == [n \in {r.name : r \in p.rows} |-> (CHOOSE r \in p.rows : r.name = n).id]
        d == InsertDates(empty, CalendarOf(v, frame))
        q == InsertPoliticians(empty, DropDuplicates(frame, 1, {}), pmap)
    IN  [tables |-> [EmptyTables EXCEPT !.party = p.rows, !.date_dim = d.rows,
                                        !.politician = q.rows],
         seq |-> [FreshSeq EXCEPT !.party = p.next, !.date_dim = d.next,
                                  !.politician = q.next]]

\* A run that has loaded its file and stands before its party phase, while
\* the tables hold the dimension rows of the same input: another run of the
\* script over the same file has filled them since this run's create_tables.
InitRerun ==
    /\ variant \in {"base", "emolex"}
    /\ pc = "party"
    /\ dbExists = TRUE
    /\ raw \in DataFrames
    /\ df = Process(variant, raw)
    /\ \E order \in Orderings(party_names(df)) :
          /\ db = Populated(variant, df, order).tables
          /\ seq = Populated(variant, df, order).seq
    /\ tx = db
    /\ txFailed = FALSE
    /\ party_map = <<>>
    /\ date_map = <<>>
    /\ politician_map = <<>>
    /\ calendar = <<>>
    /\ pairs = <<>>
    /\ idx = 0
    /\ inserted = 0
    /\ skipped = 0
    /\ raised = NoError

NextRerun ==
    \/ PartyPhase
    \/ CalendarStart
    \/ DateStep
    \/ DateCommit
    \/ PoliticianStep
    \/ PoliticianCommit

SpecRerun == InitRerun /\ [][NextRerun]_vars

\* Every entry of the three lookup maps holds the id of the row of T with
\* the entry's natural key.
MapsPointToRows(T, pm, dm, polm) ==
    /\ \A n \in DOMAIN pm : \E r \in T.party : r.name = n /\ r.id = pm[n]
    /\ \A d \in DOMAIN dm : \E r \in T.date_dim : r.date = d /\ r.id = dm[d]
    /\ \A k \in DOMAIN polm :
          \E r \in T.politician : r.name = k[1] /\ r.party = k[2] /\ r.id = polm[k]

\* C7: run against tables that already hold the dimension rows of the same
\* input, no step of the party, date and politician phases adds a party,
\* date_dim or politician row, and every lookup map entry holds the id of
\* the already existing row for its natural key; when the phases end
\* without error the maps cover every party, day and politician.
C7_UpsertIdempotent ==
    [][ /\ tx'.party = tx.party /\ db'.party = db.party
        /\ tx'.date_dim = tx.date_dim /\ db'.date_dim = db.date_dim
        /\ tx'.politician = tx.politician /\ db'.politician = db.politician
        /\ MapsPointToRows(db, party_map', date_map', politician_map')
        /\ (pc' = "speech" /\ raised' = NoError) =>
              /\ DOMAIN party_map' = { r.name : r \in db.party }
              /\ DOMAIN date_map' = { r.date : r \in db.date_dim }
              /\ DOMAIN politician_map' = { <<r.name, r.party>> : r \in db.politician }
      ]_vars

\* C7 witness: the three phases have run to their end over tables that
\* held two parties, several days and two politicians.
C7_Witness ==
    /\ pc = "speech"
    /\ raised = NoError
    /\ Cardinality(db.party) = 2
    /\ Cardinality(db.date_dim) >= 2
    /\ Cardinality(db.politician) = 2
    /\ Cardinality(DOMAIN politician_map) = 2

----------------------------------------------------------------------------
(* C11 *)

\* Position of a control point in the order of the run: schema creation,
\* loading, party phase, date phase, politician phase, speech phase, end.
PhaseRank(p) ==
    CASE p \in {"create_db", "create_tables"} -> 0
      [] p = "load" -> 1
      [] p = "party" -> 2
      [] p \in {"calendar", "date"} -> 3
      [] p = "politician" -> 4
      [] p = "speech" -> 5
      [] OTHER -> 6

\* C11: the run goes through schema creation, party, date, politician and
\* speech phase in this order; the committed contents change only on the
\* step that ends a phase, and that step makes exactly the pending rows
\* durable; no politician row exists before the party phase has ended, no
\* speech or encoding row before the politician phase has ended, and none
\* of them is durable before the final commit.
C11_PhaseOrderAndCommits ==
    [][ /\ pc' # pc =>
              \/ pc' \in {"aborted", "returned"}
              \/ PhaseRank(pc') \in PhaseRank(pc)..(PhaseRank(pc) + 1)
        /\ db' # db =>
              pc' # pc /\ pc \in {"create_tables", "party", "date", "politician", "speech"}
        /\ (pc = "party" /\ pc' = "calendar") => db' = tx'
        /\ (pc \in {"date", "politician", "speech"} /\ pc' \notin {pc, "aborted"}
              /\ ~txFailed) =>
              db' = tx /\ tx' = tx
        /\ pc' \in {"load", "party", "calendar", "date"} =>
              tx'.politician = {} /\ tx'.speech = {} /\ tx'.nrc_encoding = {}
        /\ pc' = "politician" => tx'.speech = {} /\ tx'.nrc_encoding = {}
        /\ pc' = "speech" => db'.speech = {} /\ db'.nrc_encoding = {}
      ]_vars

\* C11 witness: inside the speech phase, with the dimension rows durable
\* and a speech row inserted but not yet committed.
C11_Witness ==
    /\ pc = "speech"
    /\ db.party # {} /\ db.date_dim # {} /\ db.politician # {}
    /\ tx.speech # {} /\ tx.nrc_encoding # {}
    /\ db.speech = {} /\ db.nrc_encoding = {}

----------------------------------------------------------------------------
(* C12 *)

\* C12: the schema is recreated before the file is read: when the run
\* reaches the load, the five tables are empty and their sequences restart,
\* whatever the database held; a run that ends because the file could not
\* be loaded leaves the five tables present and empty; and after a run that
\* loaded its file and raised nothing, the dimension tables are those the
\* run's own input yields from empty tables and every speech and encoding
\* row stems from a row of that input.
C12_RunDiscardsEarlierData ==
    /\ pc = "load" =>
          \A t \in Tables : db[t] = {} /\ tx[t] = {} /\ seq[t] = 1
    /\ pc = "returned" =>
          dbExists /\ \A t \in Tables : db[t] = {}
    /\ (pc = "done" /\ raised = NoError) =>
          /\ \E order \in Orderings(party_names(df)) :
                LET fresh == Populated(variant, df, order).tables
                IN  /\ db.party = fresh.party
                    /\ db.date_dim = fresh.date_dim
                    /\ db.politician = fresh.politician
          /\ \A r \in db.speech \cup db.nrc_encoding :
                r.row \in DOMAIN raw /\ r.id \in 1..Len(raw)

\* C12 witness: the run has ended at the failed load, after create_tables,
\* with the database present and its tables empty.
C12_Witness ==
    /\ pc = "returned"
    /\ "load" \in raised.phases
    /\ dbExists
    /\ db = EmptyTables

----------------------------------------------------------------------------
(* C13 *)

\* C13: after each source row the speech loop has processed, inserted +
\* skipped is the number of rows processed so far; after the final commit
\* inserted + skipped is the number of source rows and inserted is the
\* number of speech rows the run has created.
C13_CountersAccountForRows ==
    /\ pc \in {"speech", "done"} => inserted + skipped = idx
    /\ pc = "done" =>
          /\ inserted + skipped = Len(raw)
          /\ inserted = Cardinality(db.speech)

====
